---- MODULE Spec2Model ----
(***************************************************************************)
(* The conversation loop of src/mcp_clients/mcp_client_with_langgraph.py:  *)
(* a LangGraph StateGraph over ChatState with the nodes chat_node and      *)
(* tools (a ToolNode over the Tavily tool and the tools of the two MCP     *)
(* stdio servers of the MultiServerMCPClient), the edges START ->          *)
(* chat_node, chat_node -> tools_condition, tools -> chat_node, and        *)
(* main(), which runs the graph once on one human message.                 *)
(*                                                                         *)
(* The program builds the loop out of library calls; each library call is  *)
(* modelled by what it does with the arguments the source passes:          *)
(*   add_messages     merges by message id, appends messages with a new id *)
(*   tools_condition  routes on the tool_calls of the last AI message      *)
(*   ToolNode         runs the tool calls of the last AI message           *)
(*                    concurrently (asyncio.gather) and returns one        *)
(*                    ToolMessage per call, in the order of the calls      *)
(*   MCP tool         opens a stdio session to the server for the call,    *)
(*                    sends the request and awaits the response; the       *)
(*                    source configures no timeout                         *)
(* The source pins no library version. ToolNode is built without           *)
(* handle_tool_errors, so its default decides what an exception raised by  *)
(* a tool does: langgraph-prebuilt before 1.0 turns every exception into   *)
(* an error ToolMessage, from 1.0 on only argument-validation errors are   *)
(* and every other exception is re-raised. Both are builds of this         *)
(* program; errPolicy is chosen in Init.                                   *)
(*                                                                         *)
(* Not modelled: the recursion limit of the graph run (the library default *)
(* of 25 supersteps, main() passes none) lies beyond the bounds below.     *)
(***************************************************************************)
EXTENDS Naturals, Integers, Sequences, FiniteSets, TLC

\* Bounds of the model: tool calls requested over the whole conversation,
\* and tool calls in one AI message.
MaxCalls == 3
MaxBatch == 2

VARIABLES
    status,      \* "chat": chat_node is next; "tools": the tools node runs;
                 \* "Done": the graph reached END; "Crashed": an exception left ainvoke
    error,       \* the exception that left ainvoke, "" if none
    messages,    \* ChatState['messages']
    outputs,     \* tools node: the ToolMessage of each call of the batch, NoMsg while it runs
    worker,      \* tools node: the server process of each call's session
    resp,        \* tools node: the response waiting on each call's session
    order,       \* the calls of the latest batch in the order they completed
    contacted,   \* ids of the tool calls for which a server process was started
    nextId,      \* message ids handed out so far
    nextCall,    \* tool call ids handed out so far
    errPolicy,   \* default handle_tool_errors of the installed ToolNode
    replay,      \* the history of the run that gets the same model responses and
                 \* server answers and completes every batch in request order
    conns,       \* build_graph: the connections of the MultiServerMCPClient, in dict order
    catalog,     \* build_graph: the tools handed to the ToolNode by the latest build
    build,       \* build_graph: the run that awaits client.get_tools(), if any
    fs,          \* file-system servers: the node at each path, or the directory
                 \* that file_search looks through
    gh,          \* GitHub server: the file at each path of each repository, or
                 \* the working tree and the index of a local clone
    ret          \* the latest call of a server tool: its arguments and what it gave back

convVars == <<status, error, messages, outputs, worker, resp, order, contacted,
              nextId, nextCall, errPolicy, replay>>

regVars == <<conns, catalog, build>>

toolVars == <<fs, gh, ret>>

vars == <<convVars, regVars, toolVars>>

----------------------------------------------------------------------------
\* The servers of the MultiServerMCPClient and the tools they advertise
\* (one tool of each server stands for its catalog).
Servers == {"Calculator", "Audio Control Server"}

ServerTools(s) ==
    IF s = "Calculator" THEN {"add_numbers"} ELSE {"play_audio"}

\* tools = [search_tool] + client.get_tools()
Tools == {"tavily_search"} \cup UNION {ServerTools(s) : s \in Servers}

\* The server whose connection a tool was loaded from ("local": no server process).
ServerOf(name) ==
    IF \E s \in Servers : name \in ServerTools(s)
    THEN CHOOSE s \in Servers : name \in ServerTools(s)
    ELSE "local"

\* The tool names the model's reasoning step may ask for: tools of both
\* servers and a name that no tool has.
RequestNames == {"add_numbers", "play_audio", "no_such_tool"}

----------------------------------------------------------------------------
\* Messages. id 0 is a message without an id (None).
NoMsg == [type |-> "none", id |-> 0, calls |-> <<>>, tool_call_id |-> 0,
          name |-> "", status |-> "", kind |-> "", answers |-> 0]

HumanMessage(id) == [NoMsg EXCEPT !.type = "human", !.id = id]

AIMessage(id, calls) == [NoMsg EXCEPT !.type = "ai", !.id = id, !.calls = calls]

\* ToolNode creates its ToolMessages without an id. kind tells the content
\* apart: the tool's result, the invalid-tool text, the text of a handled exception.
\* answers is the id of the request the payload was computed for.
ToolMessage(call, st, kind, answers) ==
    [NoMsg EXCEPT !.type = "tool", !.tool_call_id = call.id, !.name = call.name,
                  !.status = st, !.kind = kind, !.answers = answers]

Last(s) == s[Len(s)]

IsPrefix(s, t) == Len(s) <= Len(t) /\ \A k \in 1..Len(s) : s[k] = t[k]

\* add_messages gives every message without an id a fresh one (uuid4).
WithIds(msgs, fresh) ==
    [k \in 1..Len(msgs) |->
        IF msgs[k].id = 0 THEN [msgs[k] EXCEPT !.id = fresh + k] ELSE msgs[k]]

RECURSIVE Merge(_, _)
\* add_messages: a message whose id is already in the list replaces that
\* entry in place, any other message is appended.
Merge(merged, right) ==
    IF right = <<>> THEN merged
    ELSE LET m == Head(right)
             hit == {k \in 1..Len(merged) : merged[k].id = m.id}
         IN  IF hit # {}
             THEN Merge([merged EXCEPT ![CHOOSE k \in hit : TRUE] = m], Tail(right))
             ELSE Merge(Append(merged, m), Tail(right))

\* A ChatState declared as a plain list: the node's return value replaces the channel.
add_messages_overwrite(left, right, fresh) == WithIds(right, fresh)

\* messages: Annotated[list, add_messages]
add_messages(left, right, fresh) == Merge(left, WithIds(right, fresh))

\* Routes to the tools node whenever the last message is an AI message.
tools_condition_any_ai(msgs) ==
    IF Last(msgs).type = "ai" THEN "tools" ELSE "__end__"

\* tools_condition: "tools" if the last AI message has tool calls, else END.
tools_condition(msgs) ==
    IF Last(msgs).type = "ai" /\ Len(Last(msgs).calls) > 0 THEN "tools" ELSE "__end__"

\* ToolNode reads the tool calls of the last AI message of the state.
ParseInput(msgs) == Last(msgs).calls

Batch == IF status \in {"tools", "Crashed"} /\ Last(messages).type = "ai"
         THEN ParseInput(messages) ELSE <<>>

\* A ToolNode that looks up every requested name without checking it.
ValidateNothing(call) == NoMsg

\* ToolNode._validate_tool_call: a name that is not a tool gets the
\* invalid-tool ToolMessage (status error); NoMsg means the call is valid.
ValidateToolCall(call) ==
    IF call.name \notin Tools
    THEN ToolMessage(call, "error", "invalid_tool", 0)
    ELSE NoMsg

\* Results collected as the calls complete (asyncio.as_completed).
GatherAsCompleted(outs, completed) ==
    [k \in 1..Len(outs) |-> outs[completed[k]]]

\* asyncio.gather: the results in the order of the awaitables.
Gather(outs, completed) == [k \in 1..Len(outs) |-> outs[k]]

\* Every tool call opens its own session (client.get_tools() binds no
\* session to the tools), so call i reads the response of session i.
Session(i) == i

\* The default handle_tool_errors: does ToolNode turn exception e of a tool
\* into an error ToolMessage?
Handles(policy, e) == policy = "catch_all"

\* A message without its id (ids are drawn afresh, uuid4, in every run).
Content(m) == [m EXCEPT !.id = 0]

Contents(msgs) == [k \in 1..Len(msgs) |-> Content(msgs[k])]

\* The ToolMessage of a call that stands alone: what ToolNode makes of the
\* call and of the answer r its server gave to it.
Expected(call, r) ==
    IF call.name \notin Tools THEN ToolMessage(call, "error", "invalid_tool", 0)
    ELSE IF r.kind = "result" THEN ToolMessage(call, "success", "result", call.id)
    ELSE ToolMessage(call, "error",
                     IF r.kind = "isError" THEN "ToolException" ELSE "ConnectionClosed", 0)

----------------------------------------------------------------------------
\* The parts of the state a specification does not exercise stay at these values.
NoCatalog == [built |-> FALSE, from |-> <<>>, byName |-> <<>>]

NoRet == [tool |-> "none"]

\* No build_graph is running.
NoBuild == [active |-> FALSE, from |-> <<>>, done |-> <<>>]

RegIdle == conns = <<>> /\ catalog = NoCatalog /\ build = NoBuild

ToolsIdle == fs = <<>> /\ gh = <<>> /\ ret = NoRet

Init ==
    /\ status = "chat"
    /\ error = ""
    /\ messages = add_messages(<<>>, <<HumanMessage(0)>>, 0)
    /\ outputs = <<>>
    /\ worker = <<>>
    /\ resp = <<>>
    /\ order = <<>>
    /\ contacted = {}
    /\ nextId = 1
    /\ nextCall = 0
    /\ errPolicy \in {"catch_all", "validation_only"}
    /\ replay = <<Content(HumanMessage(0))>>
    /\ RegIdle
    /\ ToolsIdle

NoResp == [kind |-> "none", answers |-> 0]

\* The sequences of at most n requested tool names.
NameSeqs(n) == UNION {[1..k -> RequestNames] : k \in 0..n}

\* chat_node raises (the model call fails): nothing catches the exception
\* in chat_node, the graph run or main().
ChatNodeRaises ==
    /\ status = "chat"
    /\ status' = "Crashed"
    /\ error' = "ReasonerError"
    /\ UNCHANGED <<messages, outputs, worker, resp, order, contacted,
                   nextId, nextCall, errPolicy, replay>>
    /\ UNCHANGED <<regVars, toolVars>>

\* chat_node: the model's response (its id is assigned by the provider) is
\* merged into the history; tools_condition picks the next node. Entering
\* the tools node starts one coroutine per tool call.
ChatNode(names) ==
    /\ status = "chat"
    /\ nextCall + Len(names) <= MaxCalls
    /\ LET calls == [k \in 1..Len(names) |-> [id |-> nextCall + k, name |-> names[k]]]
           response == AIMessage(nextId + 1, calls)
           merged == add_messages(messages, <<response>>, nextId + 1)
           n == IF tools_condition(merged) = "tools" THEN Len(ParseInput(merged)) ELSE 0
       IN  /\ messages' = merged
           /\ status' = IF tools_condition(merged) = "tools" THEN "tools" ELSE "Done"
           /\ outputs' = [k \in 1..n |-> NoMsg]
           /\ worker' = [k \in 1..n |-> "idle"]
           /\ resp' = [k \in 1..n |-> NoResp]
           /\ replay' = Append(replay, Content(response))
    /\ order' = <<>>
    /\ nextId' = nextId + 1
    /\ nextCall' = nextCall + Len(names)
    /\ UNCHANGED <<error, contacted, errPolicy>>
    /\ UNCHANGED <<regVars, toolVars>>

\* ToolNode._arun_one for call i, up to its first await: an invalid name is
\* answered at once; for a tool of a server the session is opened (the
\* server process is started) and the request is written to it.
RunOne(i) ==
    /\ status = "tools"
    /\ i \in DOMAIN outputs
    /\ outputs[i] = NoMsg
    /\ worker[i] = "idle"
    /\ LET call == Batch[i]
           invalid == ValidateToolCall(call)
       IN  IF invalid # NoMsg
           THEN /\ outputs' = [outputs EXCEPT ![i] = invalid]
                /\ order' = Append(order, i)
                /\ UNCHANGED <<worker, contacted>>
           ELSE /\ worker' = [worker EXCEPT ![i] = "running"]
                /\ contacted' = contacted \cup {call.id}
                /\ UNCHANGED <<outputs, order>>
    /\ UNCHANGED <<status, error, messages, resp, nextId, nextCall, errPolicy, replay>>
    /\ UNCHANGED <<regVars, toolVars>>

\* The server answers the request of session i: a result, or a result
\* flagged isError (the tool raised).
WorkerRespond(i, kind) ==
    /\ status = "tools"
    /\ i \in DOMAIN worker
    /\ worker[i] = "running"
    /\ resp[i].kind = "none"
    /\ resp' = [resp EXCEPT ![i] = [kind |-> kind, answers |-> Batch[i].id]]
    /\ UNCHANGED <<status, error, messages, outputs, worker, order, contacted,
                   nextId, nextCall, errPolicy, replay>>
    /\ UNCHANGED <<regVars, toolVars>>

\* The server process of session i exits before it answers (or could not
\* be started): the session's stream closes.
WorkerExit(i) ==
    /\ status = "tools"
    /\ i \in DOMAIN worker
    /\ worker[i] = "running"
    /\ resp[i].kind = "none"
    /\ resp' = [resp EXCEPT ![i] = [kind |-> "closed", answers |-> 0]]
    /\ UNCHANGED <<status, error, messages, outputs, worker, order, contacted,
                   nextId, nextCall, errPolicy, replay>>
    /\ UNCHANGED <<regVars, toolVars>>

\* The server process of session i stays alive and never answers: whatever
\* deadline a caller has in mind passes without a response.
WorkerHang(i) ==
    /\ status = "tools"
    /\ i \in DOMAIN worker
    /\ worker[i] = "running"
    /\ resp[i].kind = "none"
    /\ worker' = [worker EXCEPT ![i] = "hung"]
    /\ UNCHANGED <<status, error, messages, outputs, resp, order, contacted,
                   nextId, nextCall, errPolicy, replay>>
    /\ UNCHANGED <<regVars, toolVars>>

\* ToolNode._arun_one for call i, after its await: the response of the
\* call's session has arrived. A result becomes a success ToolMessage with
\* the call's id. An isError result (ToolException) or a closed stream
\* raises in the tool; ToolNode turns the exception into an error
\* ToolMessage if handle_tool_errors covers it and re-raises it otherwise,
\* which ends the graph run and main() with the exception.
Receive(i) ==
    /\ status = "tools"
    /\ i \in DOMAIN outputs
    /\ outputs[i] = NoMsg
    /\ worker[i] # "idle"
    /\ LET r == resp[Session(i)]
           call == Batch[i]
       IN  /\ r.kind # "none"
           /\ IF r.kind = "result"
              THEN /\ outputs' = [outputs EXCEPT
                                    ![i] = ToolMessage(call, "success", "result", r.answers)]
                   /\ order' = Append(order, i)
                   /\ UNCHANGED <<status, error>>
              ELSE LET e == IF r.kind = "isError" THEN "ToolException" ELSE "ConnectionClosed"
                   IN  IF Handles(errPolicy, e)
                       THEN /\ outputs' = [outputs EXCEPT
                                             ![i] = ToolMessage(call, "error", e, 0)]
                            /\ order' = Append(order, i)
                            /\ UNCHANGED <<status, error>>
                       ELSE /\ status' = "Crashed"
                            /\ error' = e
                            /\ UNCHANGED <<outputs, order>>
    /\ UNCHANGED <<messages, worker, resp, contacted, nextId, nextCall, errPolicy, replay>>
    /\ UNCHANGED <<regVars, toolVars>>

\* graph.add_edge('tools', 'chat_node')
EdgeFromTools == "chat"

\* The tools node returns once every call of the batch has its
\* ToolMessage: the gathered messages are merged into the history and the
\* edge tools -> chat_node is taken.
ToolsReturn ==
    /\ status = "tools"
    /\ \A i \in DOMAIN outputs : outputs[i] # NoMsg
    /\ messages' = add_messages(messages, Gather(outputs, order), nextId)
    /\ replay' = replay \o [k \in 1..Len(outputs) |-> Expected(Batch[k], resp[k])]
    /\ nextId' = nextId + Len(outputs)
    /\ status' = EdgeFromTools
    /\ outputs' = <<>>
    /\ worker' = <<>>
    /\ resp' = <<>>
    /\ UNCHANGED <<error, order, contacted, nextCall, errPolicy>>
    /\ UNCHANGED <<regVars, toolVars>>

\* The run is cancelled (asyncio.run cancels main() on SIGINT): the
\* CancelledError passes through the node that is running, the calls of a
\* running batch are cancelled with it, and the run ends with the exception.
Interrupt ==
    /\ status \in {"chat", "tools"}
    /\ status' = "Crashed"
    /\ error' = "Cancelled"
    /\ UNCHANGED <<messages, outputs, worker, resp, order, contacted,
                   nextId, nextCall, errPolicy, replay>>
    /\ UNCHANGED <<regVars, toolVars>>

Next ==
    \/ ChatNodeRaises
    \/ \E names \in NameSeqs(MaxBatch) : ChatNode(names)
    \/ \E i \in 1..MaxBatch : RunOne(i)
    \/ \E i \in 1..MaxBatch, kind \in {"result", "isError"} : WorkerRespond(i, kind)
    \/ \E i \in 1..MaxBatch : WorkerExit(i)
    \/ \E i \in 1..MaxBatch : WorkerHang(i)
    \/ \E i \in 1..MaxBatch : Receive(i)
    \/ ToolsReturn
    \/ Interrupt

Spec == Init /\ [][Next]_vars

----------------------------------------------------------------------------
\* build_graph: the catalog of tools. The registry specification builds it
\* for every list of connections a MultiServerMCPClient can be given.

\* At most this many connections are configured.
MaxConns == 3

\* The conversation does not run in the specifications of the registry and
\* of the server tools.
ConvIdle ==
    /\ status = "off"
    /\ error = ""
    /\ messages = <<>>
    /\ outputs = <<>>
    /\ worker = <<>>
    /\ resp = <<>>
    /\ order = <<>>
    /\ contacted = {}
    /\ nextId = 0
    /\ nextCall = 0
    /\ errPolicy = "catch_all"
    /\ replay = <<>>

\* Servers of the repository that a client can be connected to.
RegServers == {"Calculator", "Audio Control Server", "System Info Server", "System info."}

\* The functions that src/local_servers/demo_server.py defines, in file
\* order. decorated: the line before the def is the decorator @mcp.tool();
\* before div_numbers it is the statement mcp.tool(), which makes a
\* decorator and drops it.
DemoServerFile ==
    <<[name |-> "add_numbers", decorated |-> TRUE],
      [name |-> "sub_numbers", decorated |-> TRUE],
      [name |-> "mul_numbers", decorated |-> TRUE],
      [name |-> "div_numbers", decorated |-> FALSE]>>

IsDecorated(def) == def.decorated

\* The tools that importing a server file registers with its FastMCP
\* object: the decorated functions, in file order.
Registered(file) ==
    LET sel == SelectSeq(file, IsDecorated)
    IN  [k \in 1..Len(sel) |-> sel[k].name]

\* The tools a server advertises, in the order its file registers them.
Advertised(s) ==
    CASE s = "Calculator" -> Registered(DemoServerFile)
      [] s = "Audio Control Server" ->
            <<"play_audio", "play_pause", "stop_audio", "set_volume", "set_volume_up",
              "set_volume_down", "next_track", "previous_track", "seek_forward",
              "seek_backward", "seek_to_position", "search_music", "now_playing">>
      [] s = "System Info Server" ->
            <<"system_status", "memory_info", "disk_info", "top_processes">>
      [] OTHER ->
            <<"system_overview", "cpu_info", "memory_info", "disk_info", "process_list",
              "network_info", "service_status", "system_uptime", "hardware_info">>

Range(f) == {f[k] : k \in DOMAIN f}

\* The tools loaded from one connection: each keeps the name the server gave it.
LoadTools(s) == [k \in 1..Len(Advertised(s)) |-> [server |-> s, name |-> Advertised(s)[k]]]

RECURSIVE GetTools(_)
\* client.get_tools(): the tools of all connections, in connection order.
GetTools(cs) ==
    IF cs = <<>> THEN <<>> ELSE LoadTools(Head(cs)) \o GetTools(Tail(cs))

\* tools = [search_tool]; tools.extend(calc_tools)
WithSearchTool(calc_tools) == <<[server |-> "local", name |-> "tavily_search"]>> \o calc_tools

ToolList(cs) == WithSearchTool(GetTools(cs))

\* ToolNode(tools=tools) keeps the tools in a dict keyed by tool name: of
\* two tools with one name the later in the list stays.
ToolsByName(list) ==
    [n \in {list[k].name : k \in 1..Len(list)} |->
        LET at == {k \in 1..Len(list) : list[k].name = n}
        IN  list[CHOOSE k \in at : \A j \in at : j <= k]]

\* The catalog that build_graph makes of the connections cs and the tools
\* calc_tools that get_tools() returned for them.
Compile(cs, calc_tools) ==
    [built |-> TRUE, from |-> cs, byName |-> ToolsByName(WithSearchTool(calc_tools))]

BuildCatalog(cs) == Compile(cs, GetTools(cs))

\* client.get_tools() loads the tools of all connections concurrently
\* (asyncio.gather) and joins the lists in connection order, whatever the
\* order done in which the connections answered.
GetToolsGathered(cs, done) == GetTools(cs)

\* The lists of at most n distinct servers.
ConnLists(n) ==
    {cs \in UNION {[1..k -> RegServers] : k \in 0..n} :
        \A i, j \in DOMAIN cs : i # j => cs[i] # cs[j]}

\* The client's configuration is fixed when the program starts: the
\* specification runs build_graph once for every list of at most MaxConns
\* of the repository's servers.
RegInit ==
    /\ ConvIdle
    /\ ToolsIdle
    /\ conns \in ConnLists(MaxConns)
    /\ catalog = NoCatalog
    /\ build = NoBuild

\* build_graph is called and awaits client.get_tools(), which starts one
\* load per connection.
GetToolsStart ==
    /\ ~build.active
    /\ ~catalog.built
    /\ build' = [active |-> TRUE, from |-> conns, done |-> <<>>]
    /\ UNCHANGED <<conns, catalog, convVars, toolVars>>

\* The load of connection k of the running build completes. tools and
\* chatbot are locals of build_graph: no catalog is there before it returns.
ListToolsDone(k) ==
    /\ build.active
    /\ k \in DOMAIN build.from
    /\ k \notin Range(build.done)
    /\ build' = [build EXCEPT !.done = Append(build.done, k)]
    /\ UNCHANGED <<conns, catalog, convVars, toolVars>>

\* get_tools() has returned: build_graph puts the tool list together, makes
\* the ToolNode and the graph and returns it to main().
BuildGraph ==
    /\ build.active
    /\ Len(build.done) = Len(build.from)
    /\ catalog' = Compile(build.from, GetToolsGathered(build.from, build.done))
    /\ build' = NoBuild
    /\ UNCHANGED <<conns, convVars, toolVars>>

RegNext ==
    \/ GetToolsStart
    \/ \E k \in 1..MaxConns : ListToolsDone(k)
    \/ BuildGraph

RegistrySpec == RegInit /\ [][RegNext]_vars

----------------------------------------------------------------------------
\* The writing tools of the two file-system servers,
\* src/local_servers/file_system.py and
\* src/mcp_servers/filesystem_mcp_server.py, called in a working directory
\* that holds a tree of files and directories at most two names deep.

\* Files hold at most this many characters.
MaxFileLen == 2

FsNames == {"notes.txt", "data"}

\* A path is a sequence of names, relative to the working directory.
FsPaths == {<<a>> : a \in FsNames} \cup {<<a, b>> : a \in FsNames, b \in FsNames}

Chars == {"x", "y"}

Texts(n) == UNION {[1..k -> Chars] : k \in 0..n}

Absent == [kind |-> "absent", content |-> <<>>]

Dir == [kind |-> "dir", content |-> <<>>]

File(text) == [kind |-> "file", content |-> text]

FsNodes == {Absent, Dir} \cup {File(t) : t \in Texts(MaxFileLen)}

\* What the process may do in the working directory: everything, nothing
\* (the directory is not searchable: every access to a path in it is
\* refused), or everything but changing the entries of a directory.
FsAccess == {"ok", "no_search", "read_only"}

\* The directory that holds the path; the working directory holds the
\* paths of one name.
Par(p) == <<p[1]>>

Base(p) == p[Len(p)]

ParentKind(f, p) == IF Len(p) = 1 THEN "dir" ELSE f[Par(p)].kind

\* The names of the entries of the directory at p.
Kids(f, p) == {c \in FsNames : p \o <<c>> \in FsPaths /\ f[p \o <<c>>].kind # "absent"}

\* The tree without the path and everything below it.
Remove(f, p) == [q \in FsPaths |-> IF IsPrefix(p, q) THEN Absent ELSE f[q]]

\* A tree in which every entry is held by a directory.
WellFormed(f) == \A p \in FsPaths : f[p].kind # "absent" => ParentKind(f, p) = "dir"

\* The result of a library call: the tree it leaves and the exception it
\* raises ("" for none). "Unfit" marks a call that would put an entry
\* three names deep.
Res(f, e) == [fs |-> f, exc |-> e]

\* The latest tool call: its arguments, the access the process had, the
\* tree it found (before), the text it returned (out) or the exception it
\* raised.
FsCall(tool, args, out, raised) ==
    [tool |-> tool, path |-> args.path, dest |-> args.dest, mode |-> args.mode,
     content |-> args.content, flag |-> args.flag, access |-> args.access,
     before |-> fs, out |-> out, raised |-> raised]

Args(path, dest, mode, content, flag, access) ==
    [path |-> path, dest |-> dest, mode |-> mode, content |-> content,
     flag |-> flag, access |-> access]

\* open(file_path, mode) for mode 'w' or 'a' on a path that is no
\* directory: 'w' creates or truncates the file, 'a' creates it if missing.
Open(node, mode) ==
    IF mode = "w" \/ node.kind = "absent" THEN File(<<>>) ELSE node

\* The exception of open(p, 'w' or 'a'), "" if it opens the file.
OpenError(f, p) ==
    IF ParentKind(f, p) = "file" THEN "NotADirectoryError"
    ELSE IF ParentKind(f, p) = "absent" THEN "FileNotFoundError"
    ELSE IF f[p].kind = "dir" THEN "IsADirectoryError"
    ELSE ""

\* The exception of reading a path that holds nothing.
MissingError(f, p) ==
    IF ParentKind(f, p) = "file" THEN "NotADirectoryError" ELSE "FileNotFoundError"

\* Path(p).mkdir(parents=parents, exist_ok=True)
Mkdir(f, p, parents) ==
    IF ParentKind(f, p) = "file" THEN Res(f, "NotADirectoryError")
    ELSE IF ParentKind(f, p) = "absent"
    THEN IF parents THEN Res([f EXCEPT ![Par(p)] = Dir, ![p] = Dir], "")
         ELSE Res(f, "FileNotFoundError")
    ELSE IF f[p].kind = "file" THEN Res(f, "FileExistsError")
    ELSE Res([f EXCEPT ![p] = Dir], "")

\* shutil.copy2(src, dst) for a src that is no directory: a dst that is a
\* directory stands for the entry of src's name in it. The source is
\* opened first: a missing source raises whatever the destination is.
Copy2(f, src, dst) ==
    LET real == IF f[dst].kind = "dir" THEN dst \o <<Base(src)>> ELSE dst
    IN  IF f[src].kind = "absent" THEN Res(f, MissingError(f, src))
        ELSE IF real \notin FsPaths THEN Res(f, "Unfit")
        ELSE IF real = src THEN Res(f, "SameFileError")
        ELSE IF OpenError(f, real) # "" THEN Res(f, OpenError(f, real))
        ELSE Res([f EXCEPT ![real] = File(f[src].content)], "")

\* shutil.copytree(src, dst, dirs_exist_ok=exist_ok) for a directory src.
\* os.makedirs(dst) raises, or makes dst and the directory that holds it.
\* Then every entry of src is copied, a file with copy2 and a directory
\* with copytree; the exceptions of the entries are collected and raised
\* as one shutil.Error after all entries were tried.
CopyTree(f, src, dst, exist_ok) ==
    LET kids == Kids(f, src)
        clash(c) == IF f[src \o <<c>>].kind = "file" THEN src = dst
                    ELSE f[dst \o <<c>>].kind = "file"
        made == [q \in FsPaths |->
                    IF q = dst \/ (Len(dst) = 2 /\ q = Par(dst)) THEN Dir
                    ELSE IF Len(q) = 2 /\ Par(q) = dst /\ Base(q) \in kids /\ ~clash(Base(q))
                    THEN f[src \o <<Base(q)>>]
                    ELSE f[q]]
    IN  IF ParentKind(f, dst) = "file" THEN Res(f, "NotADirectoryError")
        ELSE IF f[dst].kind = "file" \/ (f[dst].kind = "dir" /\ ~exist_ok)
        THEN Res(f, "FileExistsError")
        ELSE IF kids # {} /\ Len(dst) = 2 THEN Res(f, "Unfit")
        ELSE IF \E c \in kids : f[src \o <<c>>].kind = "file" /\ src # dst
                                   /\ f[dst \o <<c>>].kind = "dir"
        THEN Res(f, "Unfit")
        ELSE Res(made, IF \E c \in kids : clash(c) THEN "Error" ELSE "")

\* shutil.move(src, dst). A dst that is a directory stands for the entry
\* of src's name in it, which must not exist. os.rename does the move;
\* where it raises, a file is copied with copy2 and unlinked, a directory
\* is copied with copytree and removed, unless dst lies in it. Under a
\* directory two names deep nothing exists: os.rename raises for a missing
\* source and for a directory that dst lies in, and moves anything else
\* three names deep.
Move(f, src, dst) ==
    LET real == IF f[dst].kind = "dir" THEN dst \o <<Base(src)>> ELSE dst
        kids == Kids(f, src)
    IN  IF f[dst].kind = "dir" /\ src = dst THEN Res(f, "")
        ELSE IF real \notin FsPaths
        THEN IF f[src].kind = "absent" THEN Res(f, MissingError(f, src))
             ELSE IF f[src].kind = "dir" /\ IsPrefix(src, dst) THEN Res(f, "Error")
             ELSE Res(f, "Unfit")
        ELSE IF f[dst].kind = "dir" /\ f[real].kind # "absent" THEN Res(f, "Error")
        ELSE IF f[src].kind = "absent" THEN Res(f, MissingError(f, src))
        ELSE IF src = real THEN Res(f, "")
        ELSE IF f[src].kind = "file"
        THEN IF ParentKind(f, real) = "file" THEN Res(f, "NotADirectoryError")
             ELSE IF ParentKind(f, real) = "absent" THEN Res(f, "FileNotFoundError")
             ELSE Res([f EXCEPT ![src] = Absent, ![real] = f[src]], "")
        ELSE IF IsPrefix(src, dst) THEN Res(f, "Error")
        ELSE IF f[real].kind = "file" THEN Res(f, "FileExistsError")
        ELSE IF ParentKind(f, real) = "file" THEN Res(f, "NotADirectoryError")
        ELSE IF kids # {} /\ Len(real) = 2 THEN Res(f, "Unfit")
        ELSE Res([q \in FsPaths |->
                    IF q = real \/ (Len(real) = 2 /\ q = Par(real)) THEN Dir
                    ELSE IF Len(q) = 2 /\ Par(q) = real /\ Base(q) \in kids
                    THEN f[src \o <<Base(q)>>]
                    ELSE IF IsPrefix(src, q) THEN Absent
                    ELSE f[q]], "")

\* The trees a call can find: well-formed, files of less than MaxFileLen
\* characters.
FsInit ==
    /\ ConvIdle
    /\ RegIdle
    /\ gh = <<>>
    /\ ret = NoRet
    /\ fs \in [FsPaths -> {Absent, Dir} \cup {File(t) : t \in Texts(MaxFileLen - 1)}]
    /\ WellFormed(fs)

\* A tool of filesystem_mcp_server.py answers with a text: ok when the
\* library call r raised nothing, error when it raised.
Answers(tool, args, r, ok, failed) ==
    /\ r.exc # "Unfit"
    /\ fs' = r.fs
    /\ ret' = FsCall(tool, args, IF r.exc = "" THEN ok ELSE failed, "")

\* A tool of file_system.py has no try: the exception of the library call
\* r leaves the tool.
Raises(tool, args, r, ok) ==
    /\ r.exc # "Unfit"
    /\ fs' = r.fs
    /\ ret' = FsCall(tool, args, IF r.exc = "" THEN ok ELSE "", r.exc)

\* write_file(file_path, content, mode) of file_system.py: open() raises
\* on a directory and under a path that is no directory; otherwise the
\* file is opened, f.write() is called without an argument and raises
\* TypeError, the with block closes the file and the exception leaves the
\* function: the return statement is never reached.
write_file(file_path, content, mode, access) ==
    LET args == Args(file_path, <<>>, mode, content, FALSE, access)
    IN  /\ ret = NoRet
        /\ IF access = "no_search"
           THEN Raises("write_file", args, Res(fs, "PermissionError"), "")
           ELSE IF OpenError(fs, file_path) # ""
           THEN Raises("write_file", args, Res(fs, OpenError(fs, file_path)), "")
           ELSE Raises("write_file", args,
                       Res([fs EXCEPT ![file_path] = Open(fs[file_path], mode)], "TypeError"),
                       "")
        /\ UNCHANGED <<gh, convVars, regVars>>

\* create_directory(dir_path, parents) of file_system.py
create_directory(dir_path, parents, access) ==
    LET args == Args(dir_path, <<>>, "", <<>>, parents, access)
    IN  /\ ret = NoRet
        /\ IF access = "no_search"
           THEN Raises("create_directory", args, Res(fs, "PermissionError"), "")
           ELSE Raises("create_directory", args, Mkdir(fs, dir_path, parents),
                       "Created directory")
        /\ UNCHANGED <<gh, convVars, regVars>>

\* delete_path(path) of file_system.py: a missing path is answered with a
\* text; a directory is removed with all it holds, anything else is
\* unlinked; the process must be allowed to change the directory.
delete_path(path, access) ==
    LET args == Args(path, <<>>, "", <<>>, FALSE, access)
    IN  /\ ret = NoRet
        /\ IF access = "no_search"
           THEN Raises("delete_path", args, Res(fs, "PermissionError"), "")
           ELSE IF fs[path].kind = "absent"
           THEN Raises("delete_path", args, Res(fs, ""), "Path does not exist")
           ELSE IF access = "read_only"
           THEN Raises("delete_path", args, Res(fs, "PermissionError"), "")
           ELSE Raises("delete_path", args, Res(Remove(fs, path), ""),
                       IF fs[path].kind = "dir" THEN "Deleted directory"
                       ELSE "Deleted file")
        /\ UNCHANGED <<gh, convVars, regVars>>

\* copy_file(source, destination) of file_system.py: a directory is copied
\* with copytree, which wants the destination not to exist; anything else,
\* a missing source included, goes to copy2.
copy_file(source, destination, access) ==
    LET args == Args(source, destination, "", <<>>, FALSE, access)
    IN  /\ ret = NoRet
        /\ IF access = "no_search"
           THEN Raises("copy_file", args, Res(fs, "PermissionError"), "")
           ELSE IF fs[source].kind = "dir"
           THEN Raises("copy_file", args, CopyTree(fs, source, destination, FALSE),
                       "Copied directory")
           ELSE Raises("copy_file", args, Copy2(fs, source, destination), "Copied file")
        /\ UNCHANGED <<gh, convVars, regVars>>

\* move_file(source, destination) of file_system.py
move_file(source, destination, access) ==
    LET args == Args(source, destination, "", <<>>, FALSE, access)
    IN  /\ ret = NoRet
        /\ IF access = "no_search"
           THEN Raises("move_file", args, Res(fs, "PermissionError"), "")
           ELSE Raises("move_file", args, Move(fs, source, destination), "Moved")
        /\ UNCHANGED <<gh, convVars, regVars>>

\* file_write(filepath, content, append) of filesystem_mcp_server.py: the
\* directory that holds the path is made if it is missing, the file is
\* opened for writing or for appending, and the content is written.
file_write(filepath, content, append, access) ==
    LET args == Args(filepath, <<>>, IF append THEN "a" ELSE "w", content, append, access)
        parent == IF Len(filepath) = 2 THEN Mkdir(fs, Par(filepath), TRUE) ELSE Res(fs, "")
        old == IF append THEN fs[filepath].content ELSE <<>>
        written == [parent.fs EXCEPT ![filepath] = File(old \o content)]
    IN  /\ ret = NoRet
        /\ Len(old \o content) <= MaxFileLen
        /\ IF access = "no_search"
           THEN /\ ret' = FsCall("file_write", args, "Error: Permission denied writing to", "")
                /\ UNCHANGED fs
           ELSE IF parent.exc # ""
           THEN Answers("file_write", args, parent, "", "Error writing file")
           ELSE IF OpenError(parent.fs, filepath) # ""
           THEN Answers("file_write", args, Res(parent.fs, OpenError(parent.fs, filepath)),
                        "", "Error writing file")
           ELSE Answers("file_write", args, Res(written, ""),
                        IF append THEN "Successfully appended to"
                        ELSE "Successfully written to", "")
        /\ UNCHANGED <<gh, convVars, regVars>>

\* create_dir(path) of filesystem_mcp_server.py
create_dir(path, access) ==
    LET args == Args(path, <<>>, "", <<>>, FALSE, access)
    IN  /\ ret = NoRet
        /\ IF access = "no_search"
           THEN /\ ret' = FsCall("create_dir", args,
                                 "Error: Permission denied creating directory", "")
                /\ UNCHANGED fs
           ELSE Answers("create_dir", args, Mkdir(fs, path, TRUE),
                        "Created directory", "Error creating directory")
        /\ UNCHANGED <<gh, convVars, regVars>>

\* file_delete(path) of filesystem_mcp_server.py. The try covers
\* target.exists(), target.is_file() and target.unlink(): a PermissionError
\* of any of them is answered with one text. In a directory that is not
\* searchable exists() raises it, whatever the path holds; in a directory
\* the process may not change, unlink() raises it. A missing path and a
\* path that is not a file are answered with a text; a file is unlinked.
file_delete(path, access) ==
    LET args == Args(path, <<>>, "", <<>>, FALSE, access)
    IN  /\ ret = NoRet
        /\ IF access = "no_search"
           THEN /\ ret' = FsCall("file_delete", args, "Error: Permission denied deleting", "")
                /\ UNCHANGED fs
           ELSE IF fs[path].kind = "absent"
           THEN Answers("file_delete", args, Res(fs, ""), "Error: Path does not exist", "")
           ELSE IF fs[path].kind = "dir"
           THEN Answers("file_delete", args, Res(fs, ""), "Target is not a file", "")
           ELSE IF access = "read_only"
           THEN /\ ret' = FsCall("file_delete", args, "Error: Permission denied deleting", "")
                /\ UNCHANGED fs
           ELSE Answers("file_delete", args, Res(Remove(fs, path), ""), "Deleted file", "")
        /\ UNCHANGED <<gh, convVars, regVars>>

\* dir_delete(path) of filesystem_mcp_server.py: a directory is removed
\* with all it holds by shutil.rmtree.
dir_delete(path, access) ==
    LET args == Args(path, <<>>, "", <<>>, FALSE, access)
    IN  /\ ret = NoRet
        /\ IF access = "no_search"
           THEN /\ ret' = FsCall("dir_delete", args, "Error: Permission denied deleting", "")
                /\ UNCHANGED fs
           ELSE IF fs[path].kind = "absent"
           THEN Answers("dir_delete", args, Res(fs, ""), "Error: Path does not exist", "")
           ELSE IF fs[path].kind = "file"
           THEN Answers("dir_delete", args, Res(fs, ""), "Target is not a directory", "")
           ELSE IF access = "read_only"
           THEN /\ ret' = FsCall("dir_delete", args, "Error: Permission denied deleting", "")
                /\ UNCHANGED fs
           ELSE Answers("dir_delete", args, Res(Remove(fs, path), ""),
                        "Deleted directory", "")
        /\ UNCHANGED <<gh, convVars, regVars>>

\* file_copy(source, destination) of filesystem_mcp_server.py: a missing
\* source is answered with a text; a directory is copied with copytree
\* into the destination, which may exist; a file is copied with copy2.
file_copy(source, destination, access) ==
    LET args == Args(source, destination, "", <<>>, FALSE, access)
    IN  /\ ret = NoRet
        /\ IF access = "no_search"
           THEN /\ ret' = FsCall("file_copy", args, "Error: Permission denied copying", "")
                /\ UNCHANGED fs
           ELSE IF fs[source].kind = "absent"
           THEN Answers("file_copy", args, Res(fs, ""), "Error: Source not found", "")
           ELSE IF fs[source].kind = "dir"
           THEN Answers("file_copy", args, CopyTree(fs, source, destination, TRUE),
                        "Copied directory", "Error copying")
           ELSE Answers("file_copy", args, Copy2(fs, source, destination),
                        "Copied file", "Error copying")
        /\ UNCHANGED <<gh, convVars, regVars>>

\* file_move(source, destination) of filesystem_mcp_server.py
file_move(source, destination, access) ==
    LET args == Args(source, destination, "", <<>>, FALSE, access)
    IN  /\ ret = NoRet
        /\ IF access = "no_search"
           THEN /\ ret' = FsCall("file_move", args, "Error: Permission denied moving", "")
                /\ UNCHANGED fs
           ELSE IF fs[source].kind = "absent"
           THEN Answers("file_move", args, Res(fs, ""), "Error: Source not found", "")
           ELSE Answers("file_move", args, Move(fs, source, destination),
                        "Moved", "Error moving")
        /\ UNCHANGED <<gh, convVars, regVars>>

FsNext ==
    \/ \E p \in FsPaths, c \in Texts(1), m \in {"w", "a"}, a \in {"ok", "no_search"} :
          write_file(p, c, m, a)
    \/ \E p \in FsPaths, ps \in BOOLEAN, a \in {"ok", "no_search"} : create_directory(p, ps, a)
    \/ \E p \in FsPaths, a \in FsAccess : delete_path(p, a)
    \/ \E s \in FsPaths, d \in FsPaths, a \in {"ok", "no_search"} : copy_file(s, d, a)
    \/ \E s \in FsPaths, d \in FsPaths, a \in {"ok", "no_search"} : move_file(s, d, a)
    \/ \E p \in FsPaths, c \in Texts(1), ap \in BOOLEAN, a \in {"ok", "no_search"} :
          file_write(p, c, ap, a)
    \/ \E p \in FsPaths, a \in {"ok", "no_search"} : create_dir(p, a)
    \/ \E p \in FsPaths, a \in FsAccess : file_delete(p, a)
    \/ \E p \in FsPaths, a \in FsAccess : dir_delete(p, a)
    \/ \E s \in FsPaths, d \in FsPaths, a \in {"ok", "no_search"} : file_copy(s, d, a)
    \/ \E s \in FsPaths, d \in FsPaths, a \in {"ok", "no_search"} : file_move(s, d, a)

FsSpec == FsInit /\ [][FsNext]_vars

----------------------------------------------------------------------------
\* The writing GitHub tools of src/mcp_servers/github_mcp_server.py:
\* github_create_file, github_update_file and github_create_repository,
\* against repositories of the authenticated user and of another owner.

\* user.login of the token
GhUser == "me"

\* The repositories that exist at the start.
GhRepos == {"me/app", "other/lib"}

\* Names github_create_repository is called with.
GhNames == {"app", "new"}

\* f"{user.login}/{name}"
FullName(name) == IF name = "app" THEN "me/app" ELSE "me/new"

GhBranches == {"main", "dev"}

GhPaths == {"README.md"}

\* Contents of a file; 0 stands for no file at the path.
GhContents == {1, 2}

\* The README that auto_init=True puts on the default branch of a new
\* repository.
AutoInit == 3

\* repo.owner.login
Owner(repo_full_name) ==
    IF repo_full_name \in {"me/app", "me/new"} THEN "me" ELSE "other"

\* The ownership check is missing.
AnyOwner(repo_full_name) == TRUE

\* repo.owner.login != user.login is the error case.
OwnedByUser(repo_full_name) == Owner(repo_full_name) = GhUser

\* The file at a path on a branch of a repository; 0 when the branch or the
\* file does not exist.
GhFile(repo_full_name, branch, file_path) ==
    IF branch \in DOMAIN gh[repo_full_name]
    THEN gh[repo_full_name][branch][file_path]
    ELSE 0

\* str(e) of the exceptions of a request: the GithubException of a 404
\* answer, that of a reference that does not exist, that of any other
\* answer, and an exception that is no GithubException.
NotFound == "404 Not Found"

NoCommitForRef == "404 No commit found for the ref"

\* What a request can raise whatever the repositories hold.
GhErrors == {NotFound, "502 Server Error", "ConnectionError"}

\* The requests of github_update_file, in the order it sends them.
GhRequests == {"get_repo", "get_contents", "update_file"}

\* The request of a call that raises whatever the repositories hold, and
\* what it raises; the requests after it are not sent. No request: "".
GhFailures ==
    {[request |-> "", text |-> ""]}
       \cup {[request |-> r, text |-> t] : r \in GhRequests, t \in GhErrors}

\* The latest call of github_create_file: its arguments, the requests that
\* failed (get_repo: repoFails, get_contents: probeFails, create_file:
\* apiFails), the repositories it found (before) and its result (out).
GhCall(repo, path, content, branch, fails, out) ==
    [tool |-> "github_create_file", repo |-> repo, path |-> path, content |-> content,
     branch |-> branch, repoFails |-> fails[1], probeFails |-> fails[2],
     apiFails |-> fails[3], before |-> gh, out |-> out]

\* The latest call of github_update_file; failure is the request that
\* raised whatever the repositories hold, and what it raised.
GhUpdateCall(repo, path, content, branch, failure, out) ==
    [tool |-> "github_update_file", repo |-> repo, path |-> path, content |-> content,
     branch |-> branch, failure |-> failure, before |-> gh, out |-> out]

\* The except clauses of github_update_file, by the text of the exception:
\* a GithubException with "Not Found" in str(e) is answered as a missing
\* file, every other exception as a failed update.
UpdateError(text) ==
    IF text = NotFound THEN "error: File not found in repository"
    ELSE "error: Failed to update file"

\* What user.create_repo can raise whatever the repositories hold: a
\* GithubException whose data is the object of a JSON answer, one whose
\* data is None (an answer without a body) or a list, or an exception
\* that is no GithubException; "" for nothing.
CreateRepoErrors ==
    {"", "GithubException: object", "GithubException: no object", "ConnectionError"}

\* The latest call of github_create_repository: its argument, whether the
\* probe failed, what create_repo raised, the repositories it found
\* (before), the result it returned (out) or the exception that left the
\* tool (raised).
GhRepoCall(name, probeFails, apiError, out, raised) ==
    [tool |-> "github_create_repository", name |-> name, probeFails |-> probeFails,
     apiError |-> apiError, before |-> gh, out |-> out, raised |-> raised]

GhInit ==
    /\ ConvIdle
    /\ RegIdle
    /\ fs = <<>>
    /\ ret = NoRet
    /\ gh = [r \in GhRepos |-> [b \in GhBranches |-> [f \in GhPaths |-> 0]]]

\* github_create_file. g.get_repo raises for an unknown repository and
\* can fail for other reasons (repoFails): the outer except answers with an
\* error. A repository of another owner is refused. If repo.get_contents
\* returns, the file exists and the call is refused; if it raises, for
\* whatever reason (probeFails: not only a 404), the code goes on.
\* repo.create_file sends no sha: GitHub rejects it when a file is at the
\* path on the branch or the branch does not exist, and it can fail for
\* other reasons (apiFails); the exception becomes the error result. The
\* token may write to every repository.
github_create_file(repo_full_name, file_path, content, branch, repoFails, probeFails, apiFails) ==
    LET Returns(out) ==
           GhCall(repo_full_name, file_path, content, branch,
                  <<repoFails, probeFails, apiFails>>, out)
    IN  /\ IF repoFails \/ repo_full_name \notin DOMAIN gh
           THEN /\ ret' = Returns("error: Failed to create file")
                /\ UNCHANGED gh
           ELSE IF ~OwnedByUser(repo_full_name)
           THEN /\ ret' = Returns("error: This is not your repository")
                /\ UNCHANGED gh
           ELSE IF ~probeFails /\ GhFile(repo_full_name, branch, file_path) # 0
           THEN /\ ret' = Returns("error: File already exists")
                /\ UNCHANGED gh
           ELSE IF \/ apiFails
                   \/ branch \notin DOMAIN gh[repo_full_name]
                   \/ GhFile(repo_full_name, branch, file_path) # 0
           THEN /\ ret' = Returns("error: Failed to create file")
                /\ UNCHANGED gh
           ELSE /\ gh' = [gh EXCEPT ![repo_full_name][branch][file_path] = content]
                /\ ret' = Returns("success: created")
        /\ UNCHANGED <<fs, convVars, regVars>>

\* github_update_file. One try covers g.get_repo, repo.get_contents and
\* repo.update_file, and its except clauses answer by the text of the
\* exception, whichever request raised it. get_repo raises Not Found for
\* an unknown repository; a repository of another owner is refused;
\* get_contents raises for a branch that does not exist and Not Found for
\* a missing file; each request can also raise for other reasons
\* (failure). update_file, sent with the sha of the file found, replaces
\* the content.
github_update_file(repo_full_name, file_path, content, branch, failure) ==
    LET Returns(out) == GhUpdateCall(repo_full_name, file_path, content, branch, failure, out)
    IN  /\ IF failure.request = "get_repo"
           THEN /\ ret' = Returns(UpdateError(failure.text))
                /\ UNCHANGED gh
           ELSE IF repo_full_name \notin DOMAIN gh
           THEN /\ ret' = Returns(UpdateError(NotFound))
                /\ UNCHANGED gh
           ELSE IF ~OwnedByUser(repo_full_name)
           THEN /\ ret' = Returns("error: This is not your repository")
                /\ UNCHANGED gh
           ELSE IF failure.request = "get_contents"
           THEN /\ ret' = Returns(UpdateError(failure.text))
                /\ UNCHANGED gh
           ELSE IF branch \notin DOMAIN gh[repo_full_name]
           THEN /\ ret' = Returns(UpdateError(NoCommitForRef))
                /\ UNCHANGED gh
           ELSE IF gh[repo_full_name][branch][file_path] = 0
           THEN /\ ret' = Returns(UpdateError(NotFound))
                /\ UNCHANGED gh
           ELSE IF failure.request = "update_file"
           THEN /\ ret' = Returns(UpdateError(failure.text))
                /\ UNCHANGED gh
           ELSE /\ gh' = [gh EXCEPT ![repo_full_name][branch][file_path] = content]
                /\ ret' = Returns("success: updated")
        /\ UNCHANGED <<fs, convVars, regVars>>

\* github_create_repository. If g.get_repo returns, the repository exists
\* and the call is refused; if it raises, for whatever reason (probeFails),
\* the code goes on. user.create_repo is rejected for a name in use, with
\* a GithubException whose data is an object, and can fail for other
\* reasons (apiError). The clause for GithubException reads
\* e.data.get('message', ...): on data that is no object this raises
\* AttributeError inside the handler, which no clause catches, so the
\* exception leaves the tool. The new repository has one branch, main,
\* holding the README of auto_init.
github_create_repository(name, probeFails, apiError) ==
    /\ IF ~probeFails /\ FullName(name) \in DOMAIN gh
       THEN /\ ret' = GhRepoCall(name, probeFails, apiError,
                                 "error: Repository already exists", "")
            /\ UNCHANGED gh
       ELSE IF apiError = "GithubException: no object"
       THEN /\ ret' = GhRepoCall(name, probeFails, apiError, "", "AttributeError")
            /\ UNCHANGED gh
       ELSE IF apiError # "" \/ FullName(name) \in DOMAIN gh
       THEN /\ ret' = GhRepoCall(name, probeFails, apiError,
                                 "error: Failed to create repository", "")
            /\ UNCHANGED gh
       ELSE /\ gh' = [r \in DOMAIN gh \cup {FullName(name)} |->
                        IF r \in DOMAIN gh THEN gh[r]
                        ELSE [b \in {"main"} |-> [f \in GhPaths |-> AutoInit]]]
            /\ ret' = GhRepoCall(name, probeFails, apiError,
                                 "success: created repository", "")
    /\ UNCHANGED <<fs, convVars, regVars>>

GhNext ==
    \/ \E r \in GhRepos \cup {"me/new"}, f \in GhPaths, c \in GhContents, b \in GhBranches,
          rf \in BOOLEAN, pf \in BOOLEAN, af \in BOOLEAN :
             github_create_file(r, f, c, b, rf, pf, af)
    \/ \E r \in GhRepos \cup {"me/new"}, f \in GhPaths, c \in GhContents, b \in GhBranches,
          failure \in GhFailures :
             github_update_file(r, f, c, b, failure)
    \/ \E n \in GhNames, pf \in BOOLEAN, ae \in CreateRepoErrors :
          github_create_repository(n, pf, ae)

GhSpec == GhInit /\ [][GhNext]_vars

----------------------------------------------------------------------------
\* The shell tool of src/mcp_servers/shell_mcp_server.py. A text is the
\* sequence of its characters.

\* Commands are put together from at most this many pieces.
MaxPieces == 2

\* dangerous = [...]
dangerous ==
    <<<<"r", "m", " ", "-", "r", "f", " ", "/">>,
      <<"r", "m", " ", "-", "r", "f", " ", "/", "*">>,
      <<"d", "d", " ", "i", "f", "=">>,
      <<"m", "k", "f", "s">>,
      <<":", "(", ")", "{", " ", ":", "|", ":", "&", " ", "}", ";", ":">>,
      <<"c", "h", "m", "o", "d", " ", "7", "7", "7", " ", "/">>,
      <<">", " ", "/", "d", "e", "v", "/", "s", "d">>>>

\* Pieces of command lines: the patterns, parts of them, and spellings of
\* them in upper case.
Pieces ==
    {<<"r", "m", " ", "-", "r", "f", " ">>,
     <<"R", "M", " ", "-", "r", "f", " ">>,
     <<"/">>,
     <<"*">>,
     <<"m", "k", "f", "s">>,
     <<"M", "k", "F", "s">>,
     <<"d", "d", " ", "i", "f", "=">>,
     <<"D", "D", " ", "I", "F", "=">>,
     <<":", "(", ")", "{", " ", ":", "|", ":", "&", " ", "}", ";", ":">>,
     <<"c", "h", "m", "o", "d", " ", "7", "7", "7", " ", "/">>,
     <<"C", "H", "M", "O", "D", " ", "7", "7", "7", " ", "/">>,
     <<">", " ", "/", "d", "e", "v", "/", "s", "d">>,
     <<"l", "s", " ">>,
     <<"m", "k">>,
     <<"f", "s">>}

RECURSIVE Concat(_)
Concat(ps) == IF ps = <<>> THEN <<>> ELSE Head(ps) \o Concat(Tail(ps))

Commands(n) == {Concat(ps) : ps \in UNION {[1..k -> Pieces] : k \in 0..n}}

\* str.lower() on one character (the letters that occur in Pieces).
LowerChar(c) ==
    CASE c = "R" -> "r" [] c = "M" -> "m" [] c = "F" -> "f" [] c = "D" -> "d"
      [] c = "I" -> "i" [] c = "C" -> "c" [] c = "H" -> "h" [] c = "O" -> "o"
      [] OTHER -> c

\* command.lower()
Lower(text) == [k \in 1..Len(text) |-> LowerChar(text[k])]

\* d in text
Contains(text, d) ==
    \E at \in 0..(Len(text) - Len(d)) : \A k \in 1..Len(d) : text[at + k] = d[k]

RECURSIVE FirstIn(_, _, _)
\* for d in patterns: if d in text: the index of the first such d, 0 if none.
FirstIn(patterns, text, k) ==
    IF k > Len(patterns) THEN 0
    ELSE IF Contains(text, patterns[k]) THEN k
    ELSE FirstIn(patterns, text, k + 1)

\* The check applied to the command as it was typed.
BlockedCaseSensitive(command) == FirstIn(dangerous, command, 1)

\* for d in dangerous: if d in command.lower(): ...
Blocked(command) == FirstIn(dangerous, Lower(command), 1)

ShellCall(command, started, kind, pattern) ==
    [tool |-> "shell", command |-> command, started |-> started,
     out |-> [kind |-> kind, pattern |-> pattern]]

ShellInit ==
    /\ ConvIdle
    /\ RegIdle
    /\ fs = <<>>
    /\ gh = <<>>
    /\ ret = NoRet

\* shell(command, timeout): a command with a dangerous pattern is answered
\* with the Security Error text at once. Any other command is started with
\* Popen under /bin/bash; ran tells how that went: Popen raises, the
\* process exits within the timeout, it is killed after the timeout, or it
\* writes bytes that are not UTF-8, so that communicate() raises after the
\* process has run (the outer except answers Execution Error).
\* The tool keeps nothing from one call to the next: a behaviour is one call.
shell(command, ran) ==
    /\ ret = NoRet
    /\ IF Blocked(command) # 0
       THEN ret' = ShellCall(command, FALSE, "Security Error", dangerous[Blocked(command)])
       ELSE IF ran = "raises"
       THEN ret' = ShellCall(command, FALSE, "Execution Error", <<>>)
       ELSE IF ran = "undecodable"
       THEN ret' = ShellCall(command, TRUE, "Execution Error", <<>>)
       ELSE IF ran = "timeout"
       THEN ret' = ShellCall(command, TRUE, "Timeout Error", <<>>)
       ELSE ret' = ShellCall(command, TRUE, "Command", <<>>)
    /\ UNCHANGED <<fs, gh, convVars, regVars>>

ShellNext ==
    \E command \in Commands(MaxPieces),
       ran \in {"raises", "exits", "timeout", "undecodable"} :
       shell(command, ran)

ShellSpec == ShellInit /\ [][ShellNext]_vars

----------------------------------------------------------------------------
\* The git tools of src/mcp_servers/github_mcp_server.py on a local clone:
\* git_add_files, git_commit_changes, git_push_changes, git_pull_changes,
\* git_create_branch and git_switch_branch. A tree is the set of names a
\* commit holds; the content of a name is the same wherever it occurs.

\* The list files holds at most this many names.
MaxFiles == 2

\* Names under local_path; build.log is matched by the clone's ignore rules.
GitFiles == {"a.txt", "b.txt", "build.log"}

Ignored == {"build.log"}

GitBranchNames == {"main", "dev"}

\* The key of trees for the commit of a detached HEAD; also the value of an
\* argument that is not given (None).
NoBranch == ""

FileLists(n) == UNION {[1..k -> GitFiles] : k \in 0..n}

\* [b.name for b in repo.branches]
Branches(clone) == DOMAIN clone.trees \ {NoBranch}

\* The tree of repo.head.commit.
HeadTree(clone) == clone.trees[clone.head]

\* git diff --cached --name-only: the names that differ between the index
\* and the commit of HEAD.
DiffStaged(clone) ==
    (clone.index \ HeadTree(clone)) \cup (HeadTree(clone) \ clone.index)

\* repo.git.add(file) runs git add: it stages the file, or fails and stages
\* nothing when the path is ignored and not in the index.
GitAddFails(index, file) == file \in Ignored /\ file \notin index

RECURSIVE AddEach(_, _)
\* for file in valid_files: repo.git.add(file), up to the first add that
\* raises. Gives the index after the loop and whether an add raised.
AddEach(staged, files) ==
    IF files = <<>> THEN [staged |-> staged, raised |-> FALSE]
    ELSE IF GitAddFails(staged, Head(files)) THEN [staged |-> staged, raised |-> TRUE]
    ELSE AddEach(staged \cup {Head(files)}, Tail(files))

\* What git checkout and a fast-forward merge do to the index and the
\* working tree when HEAD goes from the tree old to the tree new. A name
\* that new adds or drops and that is in the working tree but not in the
\* index is an untracked file that would be overwritten or removed: git
\* refuses (ok is FALSE), unless the name is ignored. Otherwise the names
\* new adds enter the index and the working tree, a name already staged
\* stays as it is, and the names new drops leave the index and, where the
\* index held them, the working tree.
TwoWay(clone, old, new) ==
    LET adds == new \ old
        dels == old \ new
        untracked == (clone.exists \ clone.index) \ Ignored
    IN  [ok     |-> (adds \cup dels) \cap untracked = {},
         index  |-> (clone.index \ dels) \cup adds,
         exists |-> (clone.exists \ (dels \cap clone.index)) \cup (adds \ clone.index)]

\* The state of the branch on origin when git pull fetches it: the pull
\* fails (no remote origin, no such branch there, no connection, histories
\* that have diverged), the fetched commit is in the history of HEAD
\* already, or HEAD is fast-forwarded to a fetched commit with tree tree,
\* which can hold a name the clone ignores.
Remotes ==
    {[kind |-> "fails", tree |-> {}], [kind |-> "up to date", tree |-> {}]}
       \cup {[kind |-> "ahead", tree |-> t] : t \in SUBSET GitFiles}

\* The latest call: its arguments, what it met on origin (env), the clone
\* it found (before) and the result it returned (out).
GitCall(tool, files, branch, from, env, out) ==
    [tool |-> tool, files |-> files, branch |-> branch, from |-> from,
     env |-> env, before |-> gh, out |-> out]

\* The clone at the start: local_path is a git repository or not (isRepo),
\* some of the names exist in the working tree, the only branch is main,
\* its commit holds no file or a.txt, HEAD is on main or detached at that
\* commit, and the index is the tree of that commit or has the removal of
\* a.txt staged.
GitInit ==
    /\ ConvIdle
    /\ RegIdle
    /\ fs = <<>>
    /\ ret = NoRet
    /\ \E r \in BOOLEAN, e \in SUBSET GitFiles, h \in {"main", NoBranch},
          t \in SUBSET {"a.txt"}, i \in SUBSET {"a.txt"} :
          /\ i \subseteq t
          /\ gh = [isRepo |-> r, exists |-> e, index |-> i,
                   trees |-> [b \in {"main", h} |-> t], head |-> h]

\* git_add_files(local_path, files): not a repository: error. The first
\* file of the list that does not exist: error, before any file is added.
\* An empty list: error. Then the files are added one by one; an exception
\* of an add leaves the function through the outer except as an error.
git_add_files(files) ==
    /\ IF ~gh.isRepo
       THEN /\ ret' = GitCall("git_add_files", files, NoBranch, NoBranch, NoBranch,
                              "error: Not a git repository")
            /\ UNCHANGED gh
       ELSE IF \E k \in DOMAIN files : files[k] \notin gh.exists
       THEN /\ ret' = GitCall("git_add_files", files, NoBranch, NoBranch, NoBranch,
                              "error: File does not exist")
            /\ UNCHANGED gh
       ELSE IF files = <<>>
       THEN /\ ret' = GitCall("git_add_files", files, NoBranch, NoBranch, NoBranch,
                              "error: No valid files to add")
            /\ UNCHANGED gh
       ELSE LET added == AddEach(gh.index, files)
            IN  /\ gh' = [gh EXCEPT !.index = added.staged]
                /\ ret' = GitCall("git_add_files", files, NoBranch, NoBranch, NoBranch,
                                  IF added.raised THEN "error: Failed to add files"
                                  ELSE "success")
    /\ UNCHANGED <<fs, convVars, regVars>>

\* git_commit_changes(local_path, commit_message): not a repository:
\* error. Nothing staged: error. Otherwise repo.index.commit makes the
\* index the new commit of HEAD, on the active branch or detached.
git_commit_changes ==
    /\ IF ~gh.isRepo
       THEN /\ ret' = GitCall("git_commit_changes", <<>>, NoBranch, NoBranch, NoBranch,
                              "error: Not a git repository")
            /\ UNCHANGED gh
       ELSE IF DiffStaged(gh) = {}
       THEN /\ ret' = GitCall("git_commit_changes", <<>>, NoBranch, NoBranch, NoBranch,
                              "error: No staged changes to commit")
            /\ UNCHANGED gh
       ELSE /\ gh' = [gh EXCEPT !.trees[gh.head] = gh.index]
            /\ ret' = GitCall("git_commit_changes", <<>>, NoBranch, NoBranch, NoBranch, "success")
    /\ UNCHANGED <<fs, convVars, regVars>>

\* git_push_changes(local_path, branch): not a repository: error. No
\* branch given: the active branch, an error when HEAD is detached. The
\* fetch and the count of commits ahead of origin decide whether there is
\* something to push (outcome "nothing": a message, no success flag); the
\* push succeeds or raises, and it raises for a name that is no branch of
\* the clone. The clone's files, index and branches stay as they are.
git_push_changes(branch, outcome) ==
    LET target == IF branch = NoBranch THEN gh.head ELSE branch
    IN  /\ ret' = GitCall("git_push_changes", <<>>, branch, NoBranch, outcome,
                          IF ~gh.isRepo THEN "error: Not a git repository"
                          ELSE IF target = NoBranch THEN "error: Not on a branch"
                          ELSE IF outcome = "fails" \/ target \notin Branches(gh)
                          THEN "error: Failed to push changes"
                          ELSE IF outcome = "nothing"
                          THEN "message: No new commits to push"
                          ELSE "success")
        /\ UNCHANGED <<gh, fs, convVars, regVars>>

\* git_pull_changes(local_path, branch): not a repository: error. No
\* branch given and HEAD detached: error. origin.pull(branch) runs git
\* pull origin <branch>, which merges what it fetched into HEAD, whatever
\* branch was named: nothing to do, a fast-forward of HEAD, or a failure,
\* which is also what a fast-forward over an untracked file is.
git_pull_changes(branch, remote) ==
    /\ IF ~gh.isRepo
       THEN /\ ret' = GitCall("git_pull_changes", <<>>, branch, NoBranch, remote,
                              "error: Not a git repository")
            /\ UNCHANGED gh
       ELSE IF branch = NoBranch /\ gh.head = NoBranch
       THEN /\ ret' = GitCall("git_pull_changes", <<>>, branch, NoBranch, remote,
                              "error: Not on a branch")
            /\ UNCHANGED gh
       ELSE IF remote.kind = "up to date"
       THEN /\ ret' = GitCall("git_pull_changes", <<>>, branch, NoBranch, remote, "success")
            /\ UNCHANGED gh
       ELSE LET merge == TwoWay(gh, HeadTree(gh), remote.tree)
            IN  IF remote.kind = "fails" \/ ~merge.ok
                THEN /\ ret' = GitCall("git_pull_changes", <<>>, branch, NoBranch, remote,
                                       "error: Failed to pull changes")
                     /\ UNCHANGED gh
                ELSE /\ gh' = [gh EXCEPT !.trees[gh.head] = remote.tree,
                                         !.index = merge.index,
                                         !.exists = merge.exists]
                     /\ ret' = GitCall("git_pull_changes", <<>>, branch, NoBranch, remote,
                                       "success")
    /\ UNCHANGED <<fs, convVars, regVars>>

\* git_create_branch(local_path, new_branch, from_branch): not a
\* repository: error. No source given: the active branch, an error when
\* HEAD is detached. A branch of that name exists: error. git branch
\* raises when the source is no branch; otherwise the new branch points to
\* the commit of the source. HEAD stays where it is.
git_create_branch(new_branch, from_branch) ==
    LET source == IF from_branch = NoBranch THEN gh.head ELSE from_branch
    IN  /\ IF ~gh.isRepo
           THEN /\ ret' = GitCall("git_create_branch", <<>>, new_branch, from_branch, NoBranch,
                                  "error: Not a git repository")
                /\ UNCHANGED gh
           ELSE IF source = NoBranch
           THEN /\ ret' = GitCall("git_create_branch", <<>>, new_branch, from_branch, NoBranch,
                                  "error: Not on a branch")
                /\ UNCHANGED gh
           ELSE IF new_branch \in Branches(gh)
           THEN /\ ret' = GitCall("git_create_branch", <<>>, new_branch, from_branch, NoBranch,
                                  "error: Branch already exists")
                /\ UNCHANGED gh
           ELSE IF source \notin Branches(gh)
           THEN /\ ret' = GitCall("git_create_branch", <<>>, new_branch, from_branch, NoBranch,
                                  "error: Failed to create branch")
                /\ UNCHANGED gh
           ELSE /\ gh' = [gh EXCEPT !.trees =
                            [b \in DOMAIN gh.trees \cup {new_branch} |->
                                IF b = new_branch THEN gh.trees[source] ELSE gh.trees[b]]]
                /\ ret' = GitCall("git_create_branch", <<>>, new_branch, from_branch, NoBranch,
                                  "success")
        /\ UNCHANGED <<fs, convVars, regVars>>

\* git_switch_branch(local_path, branch_name): not a repository: error.
\* No such branch: error. git checkout of the active branch changes
\* nothing; of another branch it moves HEAD, the index and the working
\* tree to it, or raises and changes nothing.
git_switch_branch(branch_name) ==
    /\ IF ~gh.isRepo
       THEN /\ ret' = GitCall("git_switch_branch", <<>>, branch_name, NoBranch, NoBranch,
                              "error: Not a git repository")
            /\ UNCHANGED gh
       ELSE IF branch_name \notin Branches(gh)
       THEN /\ ret' = GitCall("git_switch_branch", <<>>, branch_name, NoBranch, NoBranch,
                              "error: Branch does not exist")
            /\ UNCHANGED gh
       ELSE LET checkout == TwoWay(gh, HeadTree(gh), gh.trees[branch_name])
            IN  IF ~checkout.ok
                THEN /\ ret' = GitCall("git_switch_branch", <<>>, branch_name, NoBranch, NoBranch,
                                       "error: Failed to switch branch")
                     /\ UNCHANGED gh
                ELSE /\ gh' = [gh EXCEPT !.head = branch_name,
                                         !.index = checkout.index,
                                         !.exists = checkout.exists,
                                         !.trees = [b \in Branches(gh) |-> gh.trees[b]]]
                     /\ ret' = GitCall("git_switch_branch", <<>>, branch_name, NoBranch, NoBranch,
                                       "success")
    /\ UNCHANGED <<fs, convVars, regVars>>

GitNext ==
    \/ \E files \in FileLists(MaxFiles) : git_add_files(files)
    \/ git_commit_changes
    \/ \E b \in GitBranchNames \cup {NoBranch}, o \in {"nothing", "pushed", "fails"} :
          git_push_changes(b, o)
    \/ \E b \in GitBranchNames \cup {NoBranch}, r \in Remotes : git_pull_changes(b, r)
    \/ \E n \in GitBranchNames, f \in GitBranchNames \cup {NoBranch} : git_create_branch(n, f)
    \/ \E b \in GitBranchNames : git_switch_branch(b)

GitSpec == GitInit /\ [][GitNext]_vars

----------------------------------------------------------------------------
\* file_search of src/mcp_servers/filesystem_mcp_server.py.

\* At most this many files of the directory match the pattern.
MaxMatches == 52

\* if len(matches) > 50: matches = matches[:50]
ShowLimit == 50

PathLine(k) == [kind |-> "path", n |-> k]

\* "... (showing first 50 matches)"
NoteLine == [kind |-> "note", n |-> 0]

\* The entries that glob (the directory itself) or rglob (with its
\* subdirectories) yields and that are files: directories that match are
\* skipped by match.is_file().
Matches(dir, recursive) ==
    LET n == IF recursive THEN dir.top + dir.deep ELSE dir.top
    IN  [k \in 1..n |-> PathLine(k)]

\* The lines that are listed: all matches, or the first 50 and the note.
Shown(matches) ==
    IF Len(matches) > ShowLimit
    THEN Append(SubSeq(matches, 1, ShowLimit), NoteLine)
    ELSE matches

SearchCall(recursive, kind, count, lines) ==
    [tool |-> "file_search", recursive |-> recursive,
     out |-> [kind |-> kind, count |-> count, lines |-> lines]]

\* The directory searched: it exists or not, top files of it and deep
\* files of its subdirectories match the pattern, and dirs matching
\* entries are directories.
SearchInit ==
    /\ ConvIdle
    /\ RegIdle
    /\ gh = <<>>
    /\ ret = NoRet
    /\ fs \in [exists : BOOLEAN, top : 0..MaxMatches, deep : 0..1, dirs : 0..1]

\* file_search(pattern, directory, recursive)
file_search(recursive) ==
    /\ IF ~fs.exists
       THEN ret' = SearchCall(recursive, "Error: Directory not found", 0, <<>>)
       ELSE LET matches == Matches(fs, recursive)
            IN  IF matches = <<>>
                THEN ret' = SearchCall(recursive, "No files found", 0, <<>>)
                ELSE ret' = SearchCall(recursive, "Found", Len(Shown(matches)), Shown(matches))
    /\ UNCHANGED <<fs, gh, convVars, regVars>>

SearchNext == \E recursive \in BOOLEAN : file_search(recursive)

SearchSpec == SearchInit /\ [][SearchNext]_vars

----------------------------------------------------------------------------
\* Positions of the history, and the Reasoning -> Executing cycles started so far.
Pos == 1..Len(messages)

Cycles == Cardinality({p \in Pos : messages[p].type = "ai" /\ Len(messages[p].calls) > 0})

\* C1: whenever the tools node has returned, the history holds, right after
\* the AI message that asked for N tool calls, exactly N ToolMessages, and
\* the k-th of them carries the id of the k-th requested call, in whatever
\* order the calls completed.
C1_ResultsInRequestOrder ==
    /\ status = "chat" => Last(messages).type \in {"human", "tool"}
    /\ \A p \in Pos :
          (messages[p].type = "ai" /\ p < Len(messages)) =>
             LET calls == messages[p].calls
                 n == Len(calls)
             IN  /\ n > 0
                 /\ p + n <= Len(messages)
                 /\ \A k \in 1..n : /\ messages[p + k].type = "tool"
                                    /\ messages[p + k].tool_call_id = calls[k].id
                                    /\ messages[p + k].name = calls[k].name
                 /\ p + n < Len(messages) => messages[p + n + 1].type = "ai"

\* A batch of two calls has returned although the second call completed first.
C1_Witness ==
    /\ status = "chat"
    /\ order = <<2, 1>>
    /\ Len(messages) >= 4
    /\ messages[Len(messages) - 2].type = "ai"
    /\ Last(messages).tool_call_id = messages[Len(messages) - 2].calls[2].id

\* C2: every step of chat_node and of the tools node leaves the history it
\* found as a prefix of the history it leaves: nothing is removed, replaced
\* or reordered.
C2_HistoryAppendOnly == [][IsPrefix(messages, messages')]_vars

\* Two reasoning steps and one executing step have extended the history.
C2_Witness ==
    /\ Len(messages) >= 4
    /\ \E p \in Pos : messages[p].type = "tool"
    /\ Last(messages).type = "ai"

\* C3: the run is at END exactly when the last message of the history is an
\* AI message without tool calls; an AI message with tool calls at the end
\* of the history means the tools node runs (or its exception ended the
\* run), never END.
C3_DoneIffNoToolCalls ==
    /\ status = "Done" <=> (Last(messages).type = "ai" /\ Len(Last(messages).calls) = 0)
    /\ status = "tools" => (Last(messages).type = "ai" /\ Len(Last(messages).calls) > 0)
    /\ (Last(messages).type = "ai" /\ Len(Last(messages).calls) > 0)
          => status \in {"tools", "Crashed"}

\* The run reached END after a cycle through the tools node.
C3_Witness ==
    /\ status = "Done"
    /\ Cycles >= 1

\* C4 (the claim as stated, for the limit 2 of scenario 3): the loop never
\* starts a third Reasoning -> Executing cycle.
C4_StopsAfterLimitCycles == Cycles <= 2

\* C5: a requested name that is not a tool never starts a server process
\* for that request, and its ToolMessage is the invalid-tool error, in the
\* running batch and in the history, whatever else the batch holds.
C5_UnknownToolNotContacted ==
    /\ \A i \in DOMAIN outputs :
          Batch[i].name \notin Tools =>
             /\ Batch[i].id \notin contacted
             /\ worker[i] = "idle"
             /\ outputs[i] # NoMsg =>
                   (outputs[i].status = "error" /\ outputs[i].kind = "invalid_tool")
    /\ \A p \in Pos :
          (messages[p].type = "tool" /\ messages[p].name \notin Tools) =>
             /\ messages[p].tool_call_id \notin contacted
             /\ messages[p].status = "error"
             /\ messages[p].kind = "invalid_tool"

\* A batch with an unknown name and a tool of a server has returned: the
\* server ran for the sibling only.
C5_Witness ==
    /\ status = "chat"
    /\ Len(messages) >= 4
    /\ Last(messages).kind = "invalid_tool"
    /\ messages[Len(messages) - 1].type = "tool"
    /\ messages[Len(messages) - 1].status = "success"
    /\ messages[Len(messages) - 1].tool_call_id \in contacted

\* The coroutine of call i can go on: a response waits on its session.
CanComplete(i) == ENABLED Receive(i)

\* C6 (the claim as stated): no failure of a tool call ends the run with an
\* exception, and a call that failed by timeout gets its failed ToolMessage.
C6_ToolFailuresBecomeResults ==
    /\ status = "Crashed" => error \in {"ReasonerError", "Cancelled"}
    /\ \A i \in DOMAIN outputs :
          (worker[i] = "hung" /\ outputs[i] = NoMsg) => CanComplete(i)

\* C7 (the claim as stated): a call whose server never answers does not
\* stay pending; once the deadline has passed it can return.
C7_SilentWorkerTimesOut ==
    \A i \in DOMAIN worker : worker[i] = "hung" => (outputs[i] # NoMsg \/ CanComplete(i))

\* The steps by which the tools node and the server processes go on; the
\* cancellation of the whole run from outside is not one of them.
ToolsStep ==
    \/ \E i \in 1..MaxBatch : RunOne(i)
    \/ \E i \in 1..MaxBatch, kind \in {"result", "isError"} : WorkerRespond(i, kind)
    \/ \E i \in 1..MaxBatch : WorkerExit(i)
    \/ \E i \in 1..MaxBatch : WorkerHang(i)
    \/ \E i \in 1..MaxBatch : Receive(i)
    \/ ToolsReturn

\* C8 (the claim as stated): no caller stays suspended forever; while the
\* tools node runs, some step towards its return is always possible.
C8_InvokeEventuallyReturns == status = "tools" => ENABLED ToolsStep

\* C10 (the claim as stated): a call of the batch whose server has answered
\* with a result has its success ToolMessage, or can still get it, whatever
\* happened to the other calls of the batch.
C10_SiblingsResolveIndependently ==
    \A j \in DOMAIN resp :
       (resp[j].kind = "result" /\ error # "Cancelled") =>
          (outputs[j].status = "success" \/ CanComplete(j))

\* C11 (the claim as stated): every tool advertised by a connection of the
\* built catalog can be resolved, under some name, to that tool on its own
\* server; no tool is shadowed by a tool of the same name on another server.
C11_CollidingToolsBothKept ==
    catalog.built =>
       \A s \in Range(catalog.from) : \A n \in Range(Advertised(s)) :
          \E key \in DOMAIN catalog.byName :
             catalog.byName[key] = [server |-> s, name |-> n]

\* The list without its last element.
Front(cs) == SubSeq(cs, 1, Len(cs) - 1)

\* C12 (the claim as stated): the catalog built from a list of connections
\* holds every entry of the catalog that build_graph makes of the list
\* without its last connection, unchanged, and the tools of that connection.
C12_RebuildKeepsOldEntries ==
    (catalog.built /\ Len(catalog.from) >= 1) =>
       LET old == BuildCatalog(Front(catalog.from))
       IN  /\ \A key \in DOMAIN old.byName :
                /\ key \in DOMAIN catalog.byName
                /\ catalog.byName[key] = old.byName[key]
           /\ \A n \in Range(Advertised(Last(catalog.from))) :
                 \E key \in DOMAIN catalog.byName :
                    catalog.byName[key] = [server |-> Last(catalog.from), name |-> n]

\* C13: the history of the run, compared without the message ids, equals
\* the history of the run that gets the same model responses and the same
\* server answers and completes every batch in request order: the
\* scheduling of the calls inside a batch leaves no trace in the history.
C13_HistoryIndependentOfScheduling == Contents(messages) = replay

\* A second batch has returned, its second call having completed first.
C13_Witness ==
    /\ status = "chat"
    /\ order = <<2, 1>>
    /\ Cycles >= 2
    /\ Last(messages).type = "tool"

\* C15 (the claim as stated): when the server of one call has exited, a
\* call that is pending on another server is still pending or has its
\* result; it is not dropped.
C15_CrashLeavesOtherConnections ==
    \A i, j \in DOMAIN resp :
       (/\ resp[i].kind = "closed"
        /\ ServerOf(Batch[i].name) # ServerOf(Batch[j].name)
        /\ worker[j] # "idle"
        /\ error # "Cancelled") =>
          (outputs[j] # NoMsg \/ status = "tools")

\* C16 (the claim as stated): an error raised by the reasoning step never
\* leaves the run as an uncaught exception.
C16_ReasonerErrorReported == ~(status = "Crashed" /\ error = "ReasonerError")

\* C17 (the claim as stated): after a cancellation during a batch every
\* call of the batch has a ToolMessage, its own or the cancelled one.
C17_CancelledCallsReported ==
    error = "Cancelled" => \A i \in DOMAIN outputs : outputs[i] # NoMsg

\* C18 (the claim as stated): write_file on a path that open() can open
\* for writing (no directory, held by a directory the process may use)
\* returns the success message and leaves the file holding the content
\* (mode 'w') or its old content followed by the content (mode 'a').
C18_WriteFileWrites ==
    (ret.tool = "write_file" /\ ret.access = "ok"
        /\ OpenError(ret.before, ret.path) = "") =>
       /\ ret.raised = ""
       /\ ret.out = "Successfully wrote to"
       /\ fs[ret.path] = File(IF ret.mode = "w" THEN ret.content
                              ELSE ret.before[ret.path].content \o ret.content)

\* C19 (the claim as stated): file_delete on an existing path that it is
\* permitted to delete leaves nothing at the path, file or directory.
C19_FileDeleteDeletes ==
    (ret.tool = "file_delete" /\ ret.before[ret.path].kind # "absent"
        /\ ret.out # "Error: Permission denied deleting") =>
       fs[ret.path].kind = "absent"

\* C20: github_create_file reports success only for a repository of the
\* authenticated user in which no file was at the path on the branch, and
\* then exactly that file was added; in every other case it reports an
\* error and the repositories are as before: no existing file is replaced.
C20_CreateFileNeverOverwrites ==
    ret.tool = "github_create_file" =>
       IF ret.out = "success: created"
       THEN /\ ret.repo \in DOMAIN ret.before
            /\ Owner(ret.repo) = GhUser
            /\ ret.branch \in DOMAIN ret.before[ret.repo]
            /\ ret.before[ret.repo][ret.branch][ret.path] = 0
            /\ gh = [ret.before EXCEPT ![ret.repo][ret.branch][ret.path] = ret.content]
       ELSE /\ ret.out \in {"error: Failed to create file",
                            "error: This is not your repository",
                            "error: File already exists"}
            /\ gh = ret.before

\* The existence probe failed although the file is there; the create call
\* was sent and rejected, and the file kept its content.
C20_Witness ==
    /\ ret.tool = "github_create_file"
    /\ ret.probeFails
    /\ ret.repo = "me/app"
    /\ ret.before[ret.repo][ret.branch][ret.path] = 1
    /\ ret.content = 2
    /\ ret.out = "error: Failed to create file"
    /\ gh[ret.repo][ret.branch][ret.path] = 1

\* C21 (the claim as stated): whenever the tools node stops running, the
\* step appends to the history exactly one ToolMessage per tool call of
\* the AI message before them, the k-th for the k-th call, and the next
\* node is chat_node (a run cancelled from outside apart); and a history
\* that ends with an AI message with tool calls is never extended by
\* anything but those ToolMessages.
C21_ExecutingThenReasoning ==
    [][/\ (status = "tools" /\ status' # "tools" /\ error' # "Cancelled") =>
             /\ status' = "chat"
             /\ IsPrefix(messages, messages')
             /\ Len(messages') = Len(messages) + Len(Batch)
             /\ \A k \in 1..Len(Batch) :
                   /\ messages'[Len(messages) + k].type = "tool"
                   /\ messages'[Len(messages) + k].tool_call_id = Batch[k].id
       /\ (messages' # messages /\ Last(messages).type = "ai"
              /\ Len(Last(messages).calls) > 0) =>
             /\ status = "tools"
             /\ Len(messages') > Len(messages)
             /\ messages'[Len(messages) + 1].type = "tool"]_vars

\* The orderings of a list of connections.
Orderings(cs) ==
    {p \in [1..Len(cs) -> Range(cs)] : \A i, j \in 1..Len(cs) : i # j => p[i] # p[j]}

\* C25 (the claim as stated): the catalog that a build made maps the same
\* names to the same tools of the same servers as the build of every other
\* ordering of its connections.
C25_CatalogIndependentOfOrder ==
    catalog.built =>
       \A cs \in Orderings(catalog.from) : BuildCatalog(cs).byName = catalog.byName

\* The calls of the running batch that were sent to a server and have not
\* completed.
InFlight == {i \in DOMAIN outputs : worker[i] # "idle" /\ outputs[i] = NoMsg}

\* C26 (the claim as stated, for a maximum below the largest batch): no more
\* than the maximum number of calls are in flight at once.
C26_InFlightBounded == status = "tools" => Cardinality(InFlight) <= MaxBatch - 1

\* C27: a command whose lower-cased text contains a pattern of the
\* dangerous list starts no process, and the call returns the Security
\* Error text naming a pattern of the list that the lower-cased command
\* contains.
C27_DangerousCommandNotStarted ==
    (/\ ret.tool = "shell"
     /\ \E k \in DOMAIN dangerous : Contains(Lower(ret.command), dangerous[k])) =>
       /\ ~ret.started
       /\ ret.out.kind = "Security Error"
       /\ \E k \in DOMAIN dangerous :
             /\ ret.out.pattern = dangerous[k]
             /\ Contains(Lower(ret.command), dangerous[k])

\* A command that spells a pattern with upper-case letters was refused.
C27_Witness ==
    /\ ret.tool = "shell"
    /\ ret.command = <<"M", "k", "F", "s", "/">>
    /\ ~ret.started
    /\ ret.out.kind = "Security Error"

\* C28 (the claim as stated): a call of git_add_files on a repository is
\* all-or-nothing. If a listed file is missing it returns an error and
\* leaves the index as it was; otherwise it leaves the index with exactly
\* the listed files added, or, where it returns an error, as it was.
C28_AddFilesAllOrNothing ==
    (ret.tool = "git_add_files" /\ ret.before.isRepo) =>
       IF \E k \in DOMAIN ret.files : ret.files[k] \notin ret.before.exists
       THEN /\ ret.out = "error: File does not exist"
            /\ gh.index = ret.before.index
       ELSE IF ret.out = "success"
       THEN gh.index = ret.before.index \cup Range(ret.files)
       ELSE gh.index = ret.before.index

\* C29 (the claim as stated): a catalog built from the connection to the
\* calculator server holds every function that demo_server.py defines.
C29_CalculatorAdvertisesAllFour ==
    (catalog.built /\ "Calculator" \in Range(catalog.from)) =>
       \A k \in DOMAIN DemoServerFile :
          \E key \in DOMAIN catalog.byName :
             catalog.byName[key] = [server |-> "Calculator", name |-> DemoServerFile[k].name]

\* C30 (the claim as stated): the number in the "Found N files" line of
\* file_search is the number of file paths listed below it.
C30_FoundCountIsPathsListed ==
    (ret.tool = "file_search" /\ ret.out.kind = "Found") =>
       ret.out.count =
          Cardinality({k \in DOMAIN ret.out.lines : ret.out.lines[k].kind = "path"})

====
